---- MODULE Spec2Model ----
(***************************************************************************)
(* Model of translator/data.py (Processor) and translator/training.py      *)
(* (main).  Three specifications share the module:                         *)
(*   SpecTok  - Processor.group_fn / tokenize_fn on one example            *)
(*   SpecProc - Processor.__call__, statement by statement                 *)
(*   Spec     - main(), statement by statement                             *)
(***************************************************************************)
EXTENDS Integers, Sequences, FiniteSets, TLC

VARIABLES
    \* ---- the Processor object (data.py:15-19) ----
    tokenizer,    \* self.tokenizer: pad_token_id, eos_token_id, add_eos
    max_len_arg,  \* self.data_args.max_len
    \* ---- group_fn (SpecTok) ----
    tk_pc,        \* "idle" | "call" | "done"
    tk_example,   \* the example: [inputs |-> text, targets |-> text]
    tk_raw,       \* local `labels` of group_fn before masking (tokenizer output)
    tk_out,       \* the value group_fn returns
    \* ---- Processor.__call__ (SpecProc) ----
    p_pc,         \* position in __call__
    p_args,       \* self.data_args
    p_train_in,   \* what the disk / the hub delivered for the train split
    p_valid_in,   \* what the disk / the hub delivered for the validation split
    train_data,   \* local train_data
    valid_data,   \* local valid_data
    dataset,      \* local dataset (the dict that is returned)
    p_err,        \* exception that left __call__, "none" if none
    p_log,        \* paths logged by load_data's except clause
    \* ---- main() (Spec) ----
    pc,                  \* position in main()
    m_args,              \* the parsed argument groups
    out_dir,             \* training_args.output_dir on disk
    last_checkpoint,     \* local last_checkpoint
    m_err,               \* exception that left main(), "none" if none
    m_err_at,            \* the statement that raised it
    m_log,               \* logger messages
    config,              \* local config
    base_model,          \* local base_model
    lora_config,         \* local lora_config
    model,               \* local model
    train_started,       \* trainer.train() was entered
    train_resumed_from,  \* the checkpoint handed to trainer.train()
    saved                \* save_pretrained() completed

tokVars == <<tk_pc, tk_example, tk_raw, tk_out>>
procVars == <<p_pc, p_args, p_train_in, p_valid_in, train_data, valid_data, dataset, p_err, p_log>>
mainVars == <<pc, m_args, out_dir, last_checkpoint, m_err, m_err_at, m_log, config,
              base_model, lora_config, model, train_started, train_resumed_from, saved>>
vars == <<tokenizer, max_len_arg, tokVars, procVars, mainVars>>

None == "None"

(***************************************************************************)
(* Bounds                                                                  *)
(***************************************************************************)
MaxLen == 3     \* largest data_args.max_len explored
MaxText == 3    \* largest number of words in a text

(***************************************************************************)
(* The tokenizer (transformers), called at data.py:158-168 with            *)
(* padding="max_length", truncation=True, padding_side='right'.            *)
(***************************************************************************)
Words == {"a", "b"}

\* sentencepiece-style vocabulary: 0 = <pad>, 1 = </s>, words from 3 on
PadId0 == 0
EosId == 1
IgnoreIndex == -100

TokenId(w) == CASE w = "a" -> 3 [] w = "b" -> 4

Encode(text) == [i \in 1..Len(text) |-> TokenId(text[i])]

Texts == UNION {[1..n -> Words] : n \in 0..MaxText}

\* tokenizer as shipped (pad_token distinct from eos_token)
RawTokenizer(add_eos) ==
    [pad_token_id |-> PadId0, eos_token_id |-> EosId, add_eos |-> add_eos]

\* training.py:121  tokenizer.pad_token = tokenizer.eos_token
SetPadToEos(tok) == [tok EXCEPT !.pad_token_id = tok.eos_token_id]

\* mutant: padding="longest" / no truncation: the sequence keeps its own length
TokenizerCallNoFixedLength(tok, text, max_length) ==
    LET ids == Encode(text)
        withEos == IF tok.add_eos THEN Append(ids, tok.eos_token_id) ELSE ids
    IN  [input_ids |-> withEos,
         attention_mask |-> [i \in 1..Len(withEos) |-> 1]]

\* tokenizer(x, max_length=L, padding="max_length", truncation=True)
TokenizerCall(tok, text, max_length) ==
    LET ids == Encode(text)
        nspecial == IF tok.add_eos THEN 1 ELSE 0
        room == max_length - nspecial
        trunc == IF Len(ids) > room THEN SubSeq(ids, 1, room) ELSE ids
        withEos == IF tok.add_eos THEN Append(trunc, tok.eos_token_id) ELSE trunc
        npad == max_length - Len(withEos)
    IN  [input_ids |-> withEos \o [i \in 1..npad |-> tok.pad_token_id],
         attention_mask |-> [i \in 1..Len(withEos) |-> 1] \o [i \in 1..npad |-> 0]]

\* Processor.tokenize_fn: text= and text_target= go through the same call
tokenize_fn(tok, x, length, target) ==
    IF target = FALSE
    THEN TokenizerCall(tok, x, length)
    ELSE TokenizerCall(tok, x, length)

\* the list comprehension of data.py:146-150
MaskLabels(ids, pad_token_id) ==
    [i \in 1..Len(ids) |-> IF ids[i] # pad_token_id THEN ids[i] ELSE IgnoreIndex]

\* mutant: compares against the vocabulary's <pad> id, not tokenizer.pad_token_id
group_fn_StalePadId(tok, example, max_len) ==
    LET model_inputs == tokenize_fn(tok, example.inputs, max_len, FALSE)
        labels == tokenize_fn(tok, example.targets, max_len, TRUE)
    IN  [input_ids |-> model_inputs.input_ids,
         attention_mask |-> model_inputs.attention_mask,
         labels |-> MaskLabels(labels.input_ids, PadId0)]

\* Processor.group_fn
group_fn(tok, example, max_len) ==
    LET model_inputs == tokenize_fn(tok, example.inputs, max_len, FALSE)
        labels == tokenize_fn(tok, example.targets, max_len, TRUE)
    IN  [input_ids |-> model_inputs.input_ids,
         attention_mask |-> model_inputs.attention_mask,
         labels |-> MaskLabels(labels.input_ids, tok.pad_token_id)]

TokIdle ==
    /\ tk_pc = "idle"
    /\ tk_example = None
    /\ tk_raw = None
    /\ tk_out = None

(***************************************************************************)
(* Python values of the locals of Processor.__call__                       *)
(***************************************************************************)
PyNone == [t |-> "None"]
PyAbsent == [t |-> "absent"]           \* unbound local / key not in the dict
Ds(rows) == [t |-> "ds", rows |-> rows]

Min(a, b) == IF a < b THEN a ELSE b

(***************************************************************************)
(* Bounds and input sets of Processor.__call__                             *)
(***************************************************************************)
MaxRows == 2    \* largest number of rows of a stored or hub dataset

\* bilingual rows of the hub dataset
Rows == [en : {<<"a">>, <<"a", "b">>}, vi : {<<"b">>}]
HubDatasets == UNION {[1..n -> Rows] : n \in 1..MaxRows}

\* rows of a dataset saved to disk: already in inputs/targets form
DiskExamples == [inputs : {<<"a">>}, targets : {<<"b">>, <<"b", "a">>}]
DiskDatasets == UNION {[1..n -> DiskExamples] : n \in 0..MaxRows}

\* Optional[int]: <<>> is None, <<n>> is the integer n
NoCap == <<>>
SampleCaps == {NoCap} \cup {<<n>> : n \in 1..MaxRows}

DataArgs ==
    [train_dir : {None, "dir"}, data_name : {None, "name"},
     dataset_name_train : {None, "hub"}, max_train_samples : SampleCaps,
     valid_dir : {None, "dir"}, dataset_name_validation : {None, "hub"},
     max_valid_samples : SampleCaps, streaming : BOOLEAN]

(***************************************************************************)
(* translator.features.finetune.utils (imported at data.py:7)              *)
(***************************************************************************)
\* a_2_b(batch, language_a, language_b), applied with batched=True and
\* remove_columns=['en','vi']: every row becomes one directional example
a_2_b(rows, language_a, language_b) ==
    [i \in 1..Len(rows) |->
        [inputs |-> rows[i][language_a], targets |-> rows[i][language_b]]]

\* multi_trans(dataset, a, b): both directions of every row
multi_trans(rows, language_a, language_b) ==
    [i \in 1..(2 * Len(rows)) |->
        LET r == rows[(i + 1) \div 2]
        IN  IF i % 2 = 1
            THEN [inputs |-> r[language_a], targets |-> r[language_b]]
            ELSE [inputs |-> r[language_b], targets |-> r[language_a]]]

(***************************************************************************)
(* datasets library calls made by Processor.__call__                       *)
(***************************************************************************)
\* interleave_datasets on iterable (streaming) datasets, no probabilities,
\* stopping_strategy "first_exhausted": sources are visited in a cycle and
\* the loop ends as soon as the source just read has no next example
RECURSIVE CycleFirstExhausted(_, _, _, _)
CycleFirstExhausted(srcs, pos, i, out) ==
    IF pos[i] >= Len(srcs[i])
    THEN out
    ELSE LET out2 == Append(out, srcs[i][pos[i] + 1])
             pos2 == [pos EXCEPT ![i] = pos[i] + 1]
         IN  IF pos2[i] >= Len(srcs[i])
             THEN out2
             ELSE CycleFirstExhausted(srcs, pos2, (i % Len(srcs)) + 1, out2)

\* interleave_datasets on map-style datasets: min(len) rounds over all sources
InterleaveMapStyle(srcs) ==
    LET n == Len(srcs)
        m == Min(Len(srcs[1]), Len(srcs[2]))
    IN  [k \in 1..(n * m) |-> srcs[((k - 1) % n) + 1][((k - 1) \div n) + 1]]

\* data.py:55  interleave_datasets([en_2_vi, vi_2_en], seed=self.seed)
interleave_datasets(streaming, srcs) ==
    IF streaming
    THEN CycleFirstExhausted(srcs, [k \in 1..Len(srcs) |-> 0], 1, <<>>)
    ELSE InterleaveMapStyle(srcs)

\* the orders shuffle(seed, buffer_size=10_000) can produce
Shuffles(rows) ==
    {[i \in 1..Len(rows) |-> rows[p[i]]] : p \in Permutations(1..Len(rows))}

(***************************************************************************)
(* Processor methods                                                       *)
(***************************************************************************)
\* mutant: the except clause re-raises instead of swallowing
load_data_Reraise(exists, stored) ==
    IF ~exists
    THEN [raised |-> "ValueError", value |-> PyAbsent, logged |-> FALSE]
    ELSE IF stored.t = "throws"
         THEN [raised |-> "Exception", value |-> PyAbsent, logged |-> TRUE]
         ELSE [raised |-> "none", value |-> stored, logged |-> FALSE]

\* Processor.load_data.  exists: os.path.exists(data_path);
\* stored: what load_from_disk(data_path)[key] does, [t |-> "throws"] or Ds(rows)
load_data(exists, stored) ==
    IF ~exists
    THEN [raised |-> "ValueError", value |-> PyAbsent, logged |-> FALSE]
    ELSE IF stored.t = "throws"
         THEN [raised |-> "none", value |-> PyNone, logged |-> TRUE]
         ELSE [raised |-> "none", value |-> stored, logged |-> FALSE]

\* data.py:27-28 / 63-64  data.select(range(max_samples)) when the cap is set.
\* Dataset.select returns an empty dataset unchanged and raises IndexError
\* for an index beyond the last row.
select(data, max_samples) ==
    IF max_samples = NoCap
    THEN [raised |-> "none", value |-> data]
    ELSE IF data.t # "ds"
         THEN [raised |-> "AttributeError", value |-> PyAbsent]
         ELSE IF Len(data.rows) = 0
              THEN [raised |-> "none", value |-> data]
              ELSE IF max_samples[1] > Len(data.rows)
                   THEN [raised |-> "IndexError", value |-> PyAbsent]
                   ELSE [raised |-> "none",
                         value |-> Ds(SubSeq(data.rows, 1, max_samples[1]))]

\* Processor.process_fn: dataset.map(group_fn, remove_columns=['inputs','targets'])
process_fn(tok, max_len, streaming, data) ==
    IF data.t # "ds"
    THEN [raised |-> "AttributeError", value |-> PyAbsent]
    ELSE [raised |-> "none",
          value |-> Ds([i \in 1..Len(data.rows) |-> group_fn(tok, data.rows[i], max_len)])]

\* the object load_dataset returns: rows with 'en' / 'vi' columns
HubDs(rows) == [t |-> "hub", rows |-> rows]

\* data.py:39  train_data.take(max_train_samples): an IterableDataset yields
\* at most that many rows; a map-style Dataset, where it offers take() at
\* all, does select(range(max_train_samples))
take(streaming, rows, n, has_take) ==
    IF streaming
    THEN [raised |-> "none", rows |-> SubSeq(rows, 1, Min(n, Len(rows)))]
    ELSE IF ~has_take
         THEN [raised |-> "AttributeError", rows |-> <<>>]
         ELSE LET r == select(Ds(rows), <<n>>) IN
              IF r.raised # "none"
              THEN [raised |-> r.raised, rows |-> <<>>]
              ELSE [raised |-> "none", rows |-> r.value.rows]

\* data.py:33-56: the train split from the hub, before process_fn.
\* has_take: whether the installed map-style Dataset offers take().
\* values: the values train_data can hold when the block is left (on a raise,
\* the last value assigned to it)
HubTrain(streaming, cap, rows, has_take) ==
    IF cap # NoCap
    THEN LET taken == take(streaming, rows, cap[1], has_take) IN
         IF taken.raised # "none"
         THEN [raised |-> taken.raised, values |-> {HubDs(rows)}]
         ELSE [raised |-> "none",
               values |-> {Ds(multi_trans(taken.rows, "en", "vi"))}]
    ELSE LET en_2_vi == a_2_b(rows, "en", "vi")
             vi_2_en == a_2_b(rows, "vi", "en")
             inter == interleave_datasets(streaming, <<en_2_vi, vi_2_en>>)
         IN  IF ~streaming
             THEN [raised |-> "TypeError", values |-> {Ds(inter)}]  \* shuffle(buffer_size=)
             ELSE [raised |-> "none", values |-> {Ds(s) : s \in Shuffles(inter)}]

\* data.py:69-73: the validation split from the hub, before process_fn
HubValid(rows) == Ds(multi_trans(rows, "en", "vi"))

(***************************************************************************)
(* main() of training.py: values of its arguments                          *)
(***************************************************************************)
\* Optional[str]: a string is its tuple of characters
NoneStr == [none |-> TRUE, s |-> <<>>]
Str(chars) == [none |-> FALSE, s |-> chars]
Truthy(x) == ~x.none /\ Len(x.s) > 0

\* Python `sub in s` on strings
Contains(sub, s) ==
    \E i \in 1..(Len(s) - Len(sub) + 1) : SubSeq(s, i, i + Len(sub) - 1) = sub

\* Python `a or b` on strings
PyOr(a, b) == IF Len(a) > 0 THEN a ELSE b

S_mt == <<"m", "t">>
S_mt5 == <<"m", "t", "5">>
S_t5 == <<"t", "5">>
S_flan_t5 == <<"f", "l", "a", "n", "-", "t", "5">>
S_gpt2 == <<"g", "p", "t", "2">>
S_mt0 == <<"m", "t", "0">>
S_mt_t5 == <<"m", "t", "/", "t", "5">>

\* model_name_or_path values, and the architecture stored under each name
ModelNames == {NoneStr, Str(<<>>), Str(S_mt5), Str(S_t5), Str(S_flan_t5),
               Str(S_gpt2), Str(S_mt0), Str(S_mt_t5)}
Architecture(name) == IF name.s = S_gpt2 THEN "causal" ELSE "seq2seq"

\* entries of output_dir: checkpoint-<step> folders, a file named like one,
\* and other files
CkptDir(n) == [name |-> "checkpoint", step |-> n, is_dir |-> TRUE]
CkptFile(n) == [name |-> "checkpoint", step |-> n, is_dir |-> FALSE]
OtherFile == [name |-> "other", step |-> 0, is_dir |-> FALSE]
DirContents == {{}, {OtherFile}, {CkptFile(3)}, {CkptDir(1)},
                {CkptDir(1), CkptDir(2), OtherFile}}
OutputDirs == {[isdir |-> FALSE, entries |-> {}]}
              \cup {[isdir |-> TRUE, entries |-> c] : c \in DirContents}

MainArgs ==
    [do_train : BOOLEAN, overwrite_output_dir : BOOLEAN,
     resume_from_checkpoint : {NoneStr, Str(<<"r">>)},
     config_name : {NoneStr, Str(<<"c">>)},
     config_overrides : {NoneStr, Str(<<"d">>)},
     model_name_or_path : ModelNames,
     tokenizer_name : {NoneStr, Str(<<"k">>)},
     model_type : {NoneStr, Str(S_t5)},
     quantize : BOOLEAN,
     use_lora : BOOLEAN, gradient_checkpointing : BOOLEAN,
     target_modules : {NoneStr, Str(<<"q">>)},
     att_blocks : BOOLEAN, use_int8_training : BOOLEAN]

(***************************************************************************)
(* Steps of main()                                                         *)
(***************************************************************************)
\* transformers.trainer_utils.get_last_checkpoint: the checkpoint-<step>
\* folder with the largest step, <<>> when there is none
get_last_checkpoint(entries) ==
    LET steps == {e.step : e \in {x \in entries : x.name = "checkpoint" /\ x.is_dir}}
    IN  IF steps = {} THEN <<>>
        ELSE <<CHOOSE n \in steps : \A k \in steps : k <= n>>

\* mutant: the not-empty refusal is missing
DetectCheckpoint_NoRefusal(od, a) ==
    IF od.isdir /\ a.do_train /\ ~a.overwrite_output_dir
    THEN LET last == get_last_checkpoint(od.entries) IN
         [raised |-> "none", last_checkpoint |-> last,
          logged |-> last # <<>> /\ a.resume_from_checkpoint.none]
    ELSE [raised |-> "none", last_checkpoint |-> <<>>, logged |-> FALSE]

\* training.py:75-88
DetectCheckpoint(od, a) ==
    IF od.isdir /\ a.do_train /\ ~a.overwrite_output_dir
    THEN LET last == get_last_checkpoint(od.entries) IN
         IF last = <<>> /\ Cardinality(od.entries) > 0
         THEN [raised |-> "ValueError", last_checkpoint |-> last, logged |-> FALSE]
         ELSE [raised |-> "none", last_checkpoint |-> last,
               logged |-> last # <<>> /\ a.resume_from_checkpoint.none]
    ELSE [raised |-> "none", last_checkpoint |-> <<>>, logged |-> FALSE]

\* training.py:99-109: the exception raised, or the config that is bound
\* (overrides: the string handed to config.update_from_string, NoneStr when
\* it is not called) and the messages logged on the way
LoadConfigResult(a) ==
    IF Truthy(a.config_name) \/ Truthy(a.model_name_or_path)
    THEN [raised |-> "none", config |-> [t |-> "pretrained", overrides |-> NoneStr],
          logged |-> <<>>]
    ELSE IF a.model_type.none
         THEN [raised |-> "KeyError", config |-> PyAbsent, logged |-> <<>>]
         ELSE IF ~a.config_overrides.none
              THEN [raised |-> "none",
                    config |-> [t |-> "fresh", overrides |-> a.config_overrides],
                    logged |-> <<"new config instance", "Overriding config", "New config">>]
              ELSE [raised |-> "none",
                    config |-> [t |-> "fresh", overrides |-> NoneStr],
                    logged |-> <<"new config instance">>]

\* training.py:111-122
LoadTokenizerResult(a) ==
    IF Truthy(a.tokenizer_name) \/ Truthy(a.model_name_or_path)
    THEN [raised |-> "none", tokenizer |-> SetPadToEos(RawTokenizer(TRUE))]
    ELSE [raised |-> "ValueError", tokenizer |-> None]

\* training.py:133-144: the Auto class chosen and what loading it does
LoadModelResult(a) ==
    LET name == a.model_name_or_path IN
    IF name.none
    THEN [raised |-> "TypeError", cls |-> None]               \* 'mt' in None
    ELSE LET cls == IF Contains(S_mt, name.s) THEN "AutoModelForSeq2SeqLM"
                                              ELSE "AutoModelForCausalLM"
         IN  IF ~Truthy(name)
             THEN [raised |-> "TypeError", cls |-> cls]       \* raise NotImplemented
             ELSE IF (cls = "AutoModelForSeq2SeqLM") # (Architecture(name) = "seq2seq")
                  THEN [raised |-> "ValueError", cls |-> cls] \* wrong Auto class
                  ELSE [raised |-> "none", cls |-> cls]

target_module_dict(k) ==
    IF k = "mT5" THEN <<"q", "wi_1", "k", "wi_0", "v", "wo", "o", "lm_head">>
                 ELSE <<"v", "q", "k", "wi", "wo", "o", "lm_head">>
target_att_dict(k) == <<"v", "q", "k", "o">>

\* mutant: target_modules defaults to the T5 list when no branch assigns it
ResolveTargetModules_Default(a) ==
    IF Truthy(a.target_modules) /\ a.att_blocks
    THEN [bound |-> TRUE, value |-> target_att_dict("T5")]
    ELSE IF Truthy(a.target_modules)
            /\ Contains(PyOr(S_mt5, S_flan_t5), a.model_name_or_path.s)
         THEN [bound |-> TRUE, value |-> target_module_dict("mT5")]
         ELSE [bound |-> TRUE, value |-> target_module_dict("T5")]

\* training.py:158-165: the local target_modules after the if block
ResolveTargetModules(a) ==
    IF Truthy(a.target_modules)
    THEN IF a.att_blocks
         THEN [bound |-> TRUE, value |-> target_att_dict("T5")]
         ELSE IF Contains(PyOr(S_mt5, S_flan_t5), a.model_name_or_path.s)
              THEN [bound |-> TRUE, value |-> target_module_dict("mT5")]
              ELSE IF Contains(S_t5, a.model_name_or_path.s)
                   THEN [bound |-> TRUE, value |-> target_module_dict("T5")]
                   ELSE [bound |-> FALSE, value |-> <<>>]
    ELSE [bound |-> FALSE, value |-> <<>>]

\* data.py:15  __init__(self, tokenizer, batch_size, data_args, seed)
ProcessorInitParams == 4
\* training.py:190  processor_fn(tokenizer, per_device_train_batch_size, data_args)
ProcessorInitArgs == 3

(***************************************************************************)
(* Spec: main()                                                            *)
(***************************************************************************)
MainIdle ==
    /\ pc = "idle"
    /\ m_args = None
    /\ out_dir = None
    /\ last_checkpoint = <<>>
    /\ m_err = "none"
    /\ m_err_at = "none"
    /\ m_log = <<>>
    /\ config = PyAbsent
    /\ base_model = PyAbsent
    /\ lora_config = PyAbsent
    /\ model = PyAbsent
    /\ train_started = FALSE
    /\ train_resumed_from = <<>>
    /\ saved = FALSE

(***************************************************************************)
(* SpecProc: Processor.__call__                                            *)
(***************************************************************************)
NoInput == [src |-> "none"]

ProcIdle ==
    /\ p_pc = "idle"
    /\ p_args = None
    /\ p_train_in = NoInput
    /\ p_valid_in = NoInput
    /\ train_data = PyAbsent
    /\ valid_data = PyAbsent
    /\ dataset = [train |-> PyAbsent, validation |-> PyAbsent]
    /\ p_err = "none"
    /\ p_log = <<>>

\* the Processor as main() builds it: the tokenizer of training.py:111-122
InitProc ==
    /\ TokIdle
    /\ MainIdle
    /\ tokenizer = LoadTokenizerResult([tokenizer_name |-> Str(<<"k">>),
                                        model_name_or_path |-> NoneStr]).tokenizer
    /\ max_len_arg = MaxLen
    /\ p_pc = "train"
    /\ p_args \in DataArgs
    /\ p_train_in = NoInput
    /\ p_valid_in = NoInput
    /\ train_data = PyAbsent
    /\ valid_data = PyAbsent
    /\ dataset = [train |-> PyAbsent, validation |-> PyAbsent]
    /\ p_err = "none"
    /\ p_log = <<>>

Raise(e) ==
    /\ p_pc' = "raised"
    /\ p_err' = e

TrainFromDisk == p_args.train_dir # None /\ p_args.data_name = None
TrainFromHub == ~TrainFromDisk /\ p_args.dataset_name_train # None
ValidFromDisk == p_args.valid_dir # None
ValidFromHub == ~ValidFromDisk /\ p_args.dataset_name_validation # None

\* data.py:24-25.  exists / stored are what the file system holds at train_dir
\* (a missing path stores nothing, so it is paired with one stored value only)
LoadTrainDisk ==
    /\ p_pc = "train"
    /\ TrainFromDisk
    /\ \E exists \in BOOLEAN, stored \in {[t |-> "throws"]} \cup {Ds(d) : d \in DiskDatasets} :
          LET r == load_data(exists, stored) IN
          /\ exists \/ stored.t = "throws"
          /\ p_train_in' = [src |-> "disk", exists |-> exists, stored |-> stored]
          /\ p_log' = IF r.logged THEN Append(p_log, "train") ELSE p_log
          /\ IF r.raised # "none"
             THEN Raise(r.raised) /\ UNCHANGED train_data
             ELSE /\ train_data' = r.value
                  /\ p_pc' = "train_select"
                  /\ UNCHANGED p_err
    /\ UNCHANGED <<tokenizer, max_len_arg, tokVars, mainVars, p_args, p_valid_in, valid_data, dataset>>

\* data.py:27-28
SelectTrain ==
    /\ p_pc = "train_select"
    /\ LET r == select(train_data, p_args.max_train_samples) IN
          IF r.raised # "none"
          THEN Raise(r.raised) /\ UNCHANGED train_data
          ELSE /\ train_data' = r.value
               /\ p_pc' = "train_process"
               /\ UNCHANGED p_err
    /\ UNCHANGED <<tokenizer, max_len_arg, tokVars, mainVars, p_args, p_train_in, p_valid_in,
                   valid_data, dataset, p_log>>

\* data.py:32-56.  rows are what the hub delivers; has_take only matters where
\* take() is called on a map-style Dataset, so it is varied only there
LoadTrainHub ==
    /\ p_pc = "train"
    /\ TrainFromHub
    /\ \E rows \in HubDatasets, has_take \in BOOLEAN :
          LET r == HubTrain(p_args.streaming, p_args.max_train_samples, rows, has_take) IN
          /\ has_take \/ (~p_args.streaming /\ p_args.max_train_samples # NoCap)
          /\ p_train_in' = [src |-> "hub", rows |-> rows, has_take |-> has_take]
          /\ train_data' \in r.values
          /\ IF r.raised # "none"
             THEN Raise(r.raised)
             ELSE /\ p_pc' = "train_process"
                  /\ UNCHANGED p_err
    /\ UNCHANGED <<tokenizer, max_len_arg, tokVars, mainVars, p_args, p_valid_in, valid_data,
                   dataset, p_log>>

\* data.py:30 and data.py:57
ProcessTrain ==
    /\ p_pc = "train_process"
    /\ LET r == process_fn(tokenizer, max_len_arg, p_args.streaming, train_data) IN
          IF r.raised # "none"
          THEN Raise(r.raised) /\ UNCHANGED dataset
          ELSE /\ dataset' = [dataset EXCEPT !.train = r.value]
               /\ p_pc' = "valid"
               /\ UNCHANGED p_err
    /\ UNCHANGED <<tokenizer, max_len_arg, tokVars, mainVars, p_args, p_train_in, p_valid_in,
                   train_data, valid_data, p_log>>

\* neither branch of data.py:24 / data.py:32 is taken
SkipTrain ==
    /\ p_pc = "train"
    /\ ~TrainFromDisk /\ ~TrainFromHub
    /\ p_pc' = "valid"
    /\ UNCHANGED <<tokenizer, max_len_arg, tokVars, mainVars, p_args, p_train_in, p_valid_in,
                   train_data, valid_data, dataset, p_err, p_log>>

\* data.py:60-61
LoadValidDisk ==
    /\ p_pc = "valid"
    /\ ValidFromDisk
    /\ \E exists \in BOOLEAN, stored \in {[t |-> "throws"]} \cup {Ds(d) : d \in DiskDatasets} :
          LET r == load_data(exists, stored) IN
          /\ exists \/ stored.t = "throws"
          /\ p_valid_in' = [src |-> "disk", exists |-> exists, stored |-> stored]
          /\ p_log' = IF r.logged THEN Append(p_log, "validation") ELSE p_log
          /\ IF r.raised # "none"
             THEN Raise(r.raised) /\ UNCHANGED valid_data
             ELSE /\ valid_data' = r.value
                  /\ p_pc' = "valid_select"
                  /\ UNCHANGED p_err
    /\ UNCHANGED <<tokenizer, max_len_arg, tokVars, mainVars, p_args, p_train_in, train_data, dataset>>

\* data.py:63-64
SelectValid ==
    /\ p_pc = "valid_select"
    /\ LET r == select(valid_data, p_args.max_valid_samples) IN
          IF r.raised # "none"
          THEN Raise(r.raised) /\ UNCHANGED valid_data
          ELSE /\ valid_data' = r.value
               /\ p_pc' = "valid_process"
               /\ UNCHANGED p_err
    /\ UNCHANGED <<tokenizer, max_len_arg, tokVars, mainVars, p_args, p_train_in, p_valid_in,
                   train_data, dataset, p_log>>

\* data.py:68-73
LoadValidHub ==
    /\ p_pc = "valid"
    /\ ValidFromHub
    /\ \E rows \in HubDatasets :
          /\ p_valid_in' = [src |-> "hub", rows |-> rows]
          /\ valid_data' = HubValid(rows)
    /\ p_pc' = "valid_process"
    /\ UNCHANGED <<tokenizer, max_len_arg, tokVars, mainVars, p_args, p_train_in, train_data,
                   dataset, p_err, p_log>>

\* data.py:66 and data.py:74
ProcessValid ==
    /\ p_pc = "valid_process"
    /\ LET r == process_fn(tokenizer, max_len_arg, p_args.streaming, valid_data) IN
          IF r.raised # "none"
          THEN Raise(r.raised) /\ UNCHANGED dataset
          ELSE /\ dataset' = [dataset EXCEPT !.validation = r.value]
               /\ p_pc' = "ret"
               /\ UNCHANGED p_err
    /\ UNCHANGED <<tokenizer, max_len_arg, tokVars, mainVars, p_args, p_train_in, p_valid_in,
                   train_data, valid_data, p_log>>

\* neither branch of data.py:60 / data.py:68 is taken
SkipValid ==
    /\ p_pc = "valid"
    /\ ~ValidFromDisk /\ ~ValidFromHub
    /\ p_pc' = "ret"
    /\ UNCHANGED <<tokenizer, max_len_arg, tokVars, mainVars, p_args, p_train_in, p_valid_in,
                   train_data, valid_data, dataset, p_err, p_log>>

\* data.py:76  return dataset
ReturnDataset ==
    /\ p_pc = "ret"
    /\ p_pc' = "returned"
    /\ UNCHANGED <<tokenizer, max_len_arg, tokVars, mainVars, p_args, p_train_in, p_valid_in,
                   train_data, valid_data, dataset, p_err, p_log>>

NextProc ==
    \/ LoadTrainDisk
    \/ SelectTrain
    \/ LoadTrainHub
    \/ ProcessTrain
    \/ SkipTrain
    \/ LoadValidDisk
    \/ SelectValid
    \/ LoadValidHub
    \/ ProcessValid
    \/ SkipValid
    \/ ReturnDataset

SpecProc == InitProc /\ [][NextProc]_vars

(***************************************************************************)
(* SpecTok: one call of group_fn                                           *)
(***************************************************************************)
InitTok ==
    /\ ProcIdle
    /\ MainIdle
    /\ tk_pc = "call"
    /\ \E add_eos \in BOOLEAN, pad_is_eos \in BOOLEAN :
          tokenizer = IF pad_is_eos THEN SetPadToEos(RawTokenizer(add_eos))
                                 ELSE RawTokenizer(add_eos)
    /\ max_len_arg \in 1..MaxLen
    /\ tk_example \in [inputs : Texts, targets : Texts]
    /\ tk_raw = None
    /\ tk_out = None

GroupFn ==
    /\ tk_pc = "call"
    /\ tk_raw' = tokenize_fn(tokenizer, tk_example.targets, max_len_arg, TRUE)
    /\ tk_out' = group_fn(tokenizer, tk_example, max_len_arg)
    /\ tk_pc' = "done"
    /\ UNCHANGED <<tokenizer, max_len_arg, tk_example, procVars, mainVars>>

NextTok == GroupFn

SpecTok == InitTok /\ [][NextTok]_vars

(***************************************************************************)
(* Spec: main(), continued                                                 *)
(***************************************************************************)
\* the state after argument parsing (training.py:60-73)
Init ==
    /\ TokIdle
    /\ ProcIdle
    /\ tokenizer = None
    /\ max_len_arg = 0
    /\ pc = "checkpoint"
    /\ m_args \in MainArgs
    /\ out_dir \in OutputDirs
    /\ last_checkpoint = <<>>
    /\ m_err = "none"
    /\ m_err_at = "none"
    /\ m_log = <<>>
    /\ config = PyAbsent
    /\ base_model = PyAbsent
    /\ lora_config = PyAbsent
    /\ model = PyAbsent
    /\ train_started = FALSE
    /\ train_resumed_from = <<>>
    /\ saved = FALSE

MainRaise(e, at) ==
    /\ pc' = "raised"
    /\ m_err' = e
    /\ m_err_at' = at

\* training.py:75-88
DetectLastCheckpoint ==
    /\ pc = "checkpoint"
    /\ LET r == DetectCheckpoint(out_dir, m_args) IN
          /\ last_checkpoint' = r.last_checkpoint
          /\ m_log' = IF r.logged THEN Append(m_log, "resuming training at") ELSE m_log
          /\ IF r.raised # "none"
             THEN MainRaise(r.raised, "output_dir")
             ELSE pc' = "config" /\ UNCHANGED <<m_err, m_err_at>>
    /\ UNCHANGED <<tokenizer, max_len_arg, tokVars, procVars, m_args, out_dir, config,
                   base_model, lora_config, model, train_started, train_resumed_from, saved>>

\* training.py:90-109
LoadConfig ==
    /\ pc = "config"
    /\ LET r == LoadConfigResult(m_args) IN
          IF r.raised # "none"
          THEN MainRaise(r.raised, "config") /\ UNCHANGED <<config, m_log>>
          ELSE /\ config' = r.config
               /\ m_log' = m_log \o r.logged
               /\ pc' = "tokenizer"
               /\ UNCHANGED <<m_err, m_err_at>>
    /\ UNCHANGED <<tokenizer, max_len_arg, tokVars, procVars, m_args, out_dir,
                   last_checkpoint, base_model, lora_config, model, train_started,
                   train_resumed_from, saved>>

\* training.py:111-122
LoadTokenizer ==
    /\ pc = "tokenizer"
    /\ LET r == LoadTokenizerResult(m_args) IN
          IF r.raised # "none"
          THEN MainRaise(r.raised, "tokenizer") /\ UNCHANGED tokenizer
          ELSE /\ tokenizer' = r.tokenizer
               /\ pc' = "model"
               /\ UNCHANGED <<m_err, m_err_at>>
    /\ UNCHANGED <<max_len_arg, tokVars, procVars, m_args, out_dir, last_checkpoint,
                   m_log, config, base_model, lora_config, model, train_started,
                   train_resumed_from, saved>>

\* training.py:124-144
LoadModel ==
    /\ pc = "model"
    /\ LET r == LoadModelResult(m_args) IN
          IF r.raised # "none"
          THEN MainRaise(r.raised, "model") /\ UNCHANGED base_model
          ELSE /\ base_model' = [t |-> "base", cls |-> r.cls, int8 |-> FALSE]
               /\ pc' = "lora"
               /\ UNCHANGED <<m_err, m_err_at>>
    /\ UNCHANGED <<tokenizer, max_len_arg, tokVars, procVars, m_args, out_dir,
                   last_checkpoint, m_log, config, lora_config, model, train_started,
                   train_resumed_from, saved>>

\* training.py:147-186, use_lora set
AttachLora ==
    /\ pc = "lora"
    /\ m_args.use_lora
    /\ LET tm == ResolveTargetModules(m_args)
           prepared == [base_model EXCEPT !.int8 = m_args.use_int8_training]
       IN  IF m_args.gradient_checkpointing
           THEN /\ MainRaise("AssertionError", "lora_assert")
                /\ UNCHANGED <<base_model, lora_config, model>>
           ELSE IF ~tm.bound
                THEN /\ MainRaise("UnboundLocalError", "lora_config")
                     /\ UNCHANGED <<base_model, lora_config, model>>
                ELSE /\ lora_config' = [t |-> "LoraConfig", target_modules |-> tm.value,
                                        task_type |-> "SEQ_CLS"]
                     /\ base_model' = prepared
                     /\ model' = [t |-> "peft", base |-> prepared]
                     /\ pc' = "processor"
                     /\ UNCHANGED <<m_err, m_err_at>>
    /\ UNCHANGED <<tokenizer, max_len_arg, tokVars, procVars, m_args, out_dir,
                   last_checkpoint, m_log, config, train_started, train_resumed_from, saved>>

\* training.py:147, use_lora not set: the block is skipped, `model` stays unbound
SkipLora ==
    /\ pc = "lora"
    /\ ~m_args.use_lora
    /\ pc' = "processor"
    /\ UNCHANGED <<tokenizer, max_len_arg, tokVars, procVars, m_args, out_dir,
                   last_checkpoint, m_err, m_err_at, m_log, config, base_model,
                   lora_config, model, train_started, train_resumed_from, saved>>

\* training.py:188-190: Processor.__init__ is called one argument short.
\* Nothing after this statement runs: the collator, the trainer (whose `model`
\* is unbound without LoRA), trainer.train() (called with no checkpoint) and
\* save_pretrained() of training.py:196-223 are never reached.
ConstructProcessor ==
    /\ pc = "processor"
    /\ ProcessorInitArgs # ProcessorInitParams
    /\ MainRaise("TypeError", "processor")
    /\ UNCHANGED <<tokenizer, max_len_arg, tokVars, procVars, m_args, out_dir,
                   last_checkpoint, m_log, config, base_model, lora_config, model,
                   train_started, train_resumed_from, saved>>

Next ==
    \/ DetectLastCheckpoint
    \/ LoadConfig
    \/ LoadTokenizer
    \/ LoadModel
    \/ AttachLora
    \/ SkipLora
    \/ ConstructProcessor

Spec == Init /\ [][Next]_vars

(***************************************************************************)
(* Properties of group_fn (checked under SpecTok)                          *)
(***************************************************************************)
\* C3: the labels group_fn returns hold no element equal to the tokenizer's
\* padding id, and every position that was padding in the tokenized target
\* (attention mask 0) holds the ignore sentinel -100.
C3_LabelsHoldNoPadId ==
    tk_pc = "done" =>
        /\ \A i \in 1..Len(tk_out.labels) : tk_out.labels[i] # tokenizer.pad_token_id
        /\ \A i \in 1..Len(tk_raw.attention_mask) :
              tk_raw.attention_mask[i] = 0 => tk_out.labels[i] = IgnoreIndex

\* a padded target went through group_fn and its padding was rewritten
C3_Witness ==
    /\ tk_pc = "done"
    /\ \E i \in 1..Len(tk_raw.attention_mask) :
          /\ tk_raw.attention_mask[i] = 0
          /\ tk_raw.input_ids[i] = tokenizer.pad_token_id
          /\ tk_out.labels[i] = IgnoreIndex

\* C4: labels and input ids have the same length, the configured maximum
\* length, whether the texts are shorter (padded) or longer (truncated).
C4_LengthsEqualMaxLen ==
    tk_pc = "done" =>
        /\ Len(tk_out.labels) = Len(tk_out.input_ids)
        /\ Len(tk_out.labels) = max_len_arg

\* one text was truncated and the other padded in the same example
C4_Witness ==
    /\ tk_pc = "done"
    /\ Len(tk_example.targets) > max_len_arg
    /\ Len(tk_example.inputs) + 1 < max_len_arg
    /\ Len(tk_out.labels) = max_len_arg

\* C10 (as claimed): with pad token = eos token, every label position that
\* holds a real token of the tokenized target (attention mask 1), its
\* end-of-sequence token included, keeps its token id.
C10_RealTokensKeepTheirId ==
    (tk_pc = "done" /\ tokenizer.pad_token_id = tokenizer.eos_token_id) =>
        \A i \in 1..Len(tk_raw.attention_mask) :
            tk_raw.attention_mask[i] = 1 => tk_out.labels[i] = tk_raw.input_ids[i]

(***************************************************************************)
(* Properties of Processor.__call__ (checked under SpecProc)               *)
(***************************************************************************)
Occurrences(e, seq) == Cardinality({i \in 1..Len(seq) : seq[i] = e})

\* ds holds, for every row, the a -> b example and the b -> a example, and
\* nothing else
BothDirectionsOfEachRow(ds, rows) ==
    /\ Len(ds) = 2 * Len(rows)
    /\ \A r \in {rows[i] : i \in 1..Len(rows)} :
          /\ Occurrences([inputs |-> r.en, targets |-> r.vi], ds)
                = Occurrences(r, rows)
          /\ Occurrences([inputs |-> r.vi, targets |-> r.en], ds)
                = Occurrences(r, rows)

\* the rows the train split is built from: the first max_train_samples rows
\* on the capped path, all rows otherwise
RowsUsedForTrain ==
    IF p_args.max_train_samples = NoCap
    THEN p_train_in.rows
    ELSE SubSeq(p_train_in.rows, 1,
                Min(p_args.max_train_samples[1], Len(p_train_in.rows)))

\* C5 (as claimed): hub-loaded data handed to process_fn holds exactly two
\* examples per bilingual row, source a / target b and source b / target a,
\* on the capped path, the uncapped path and the validation path.
C5_TwoDirectionsPerRow ==
    /\ (p_pc = "train_process" /\ p_train_in.src = "hub") =>
          BothDirectionsOfEachRow(train_data.rows, RowsUsedForTrain)
    /\ (p_pc = "valid_process" /\ p_valid_in.src = "hub") =>
          BothDirectionsOfEachRow(valid_data.rows, p_valid_in.rows)

DiskLoadThrew(in) == in.src = "disk" /\ in.exists /\ in.stored.t = "throws"

\* C6 (as claimed): when the path exists and loading throws, __call__ raises
\* nothing and returns a mapping without that split.
C6_ReturnsMappingWithoutSplit ==
    /\ (DiskLoadThrew(p_train_in) /\ p_pc \in {"raised", "returned"}) =>
          (p_pc = "returned" /\ dataset.train.t = "absent")
    /\ (DiskLoadThrew(p_valid_in) /\ p_pc \in {"raised", "returned"}) =>
          (p_pc = "returned" /\ dataset.validation.t = "absent")

\* C6 (amended): when the path exists and loading throws, load_data logs the
\* error and returns None without raising; __call__ then returns no mapping:
\* the next use of the missing split raises AttributeError.
C6_SwallowedThenAttributeError ==
    /\ DiskLoadThrew(p_train_in) =>
          /\ p_log = <<"train">>
          /\ p_pc \in {"train_select", "train_process", "raised"}
          /\ p_pc # "raised" => (train_data.t = "None" /\ p_err = "none")
          /\ p_pc = "raised" => p_err = "AttributeError"
          /\ dataset.train.t = "absent"
          /\ dataset.validation.t = "absent"
    /\ DiskLoadThrew(p_valid_in) =>
          /\ p_log = <<"validation">>
          /\ p_pc \in {"valid_select", "valid_process", "raised"}
          /\ p_pc # "raised" => (valid_data.t = "None" /\ p_err = "none")
          /\ p_pc = "raised" => p_err = "AttributeError"
          /\ dataset.validation.t = "absent"

\* the validation load threw after the train split had been produced, and
\* __call__ ended in AttributeError
C6_Witness ==
    /\ p_pc = "raised"
    /\ DiskLoadThrew(p_valid_in)
    /\ p_err = "AttributeError"
    /\ dataset.train.t = "ds"
    /\ p_log = <<"validation">>

(***************************************************************************)
(* Properties of main() (checked under Spec)                               *)
(***************************************************************************)
Terminal == pc \in {"raised", "returned"}

NonEmptyNoOverwrite ==
    /\ out_dir.isdir
    /\ out_dir.entries # {}
    /\ ~m_args.overwrite_output_dir

HasCheckpointFolder == \E e \in out_dir.entries : e.name = "checkpoint" /\ e.is_dir

\* no target-module list can be resolved for these arguments
NoTargetModuleList ==
    \/ ~Truthy(m_args.target_modules)
    \/ /\ ~m_args.att_blocks
       /\ ~Contains(S_mt5, m_args.model_name_or_path.s)
       /\ ~Contains(S_t5, m_args.model_name_or_path.s)

\* the configuration passes every configuration check of main()
ConfigurationPasses ==
    /\ ~(NonEmptyNoOverwrite /\ m_args.do_train /\ ~HasCheckpointFolder)
    /\ Truthy(m_args.model_name_or_path)
    /\ Contains(S_mt, m_args.model_name_or_path.s)
          <=> (Architecture(m_args.model_name_or_path) = "seq2seq")
    /\ m_args.use_lora => (~m_args.gradient_checkpointing /\ ~NoTargetModuleList)

\* C1 (as claimed): a configuration that passes the checks runs to the end:
\* training is started, the model is saved and main() returns without raising.
C1_RunsToCompletion ==
    (Terminal /\ ConfigurationPasses) =>
        (pc = "returned" /\ m_err = "none" /\ train_started /\ saved)

\* C2 (as claimed): a non-empty output directory without the overwrite flag
\* makes main() raise ValueError, whatever do_train and the contents are.
C2_AlwaysRefuses ==
    (Terminal /\ NonEmptyNoOverwrite) => m_err = "ValueError"

\* C2 (amended): a non-empty output directory that holds no checkpoint folder,
\* with do_train set and without the overwrite flag, makes main() raise
\* ValueError at the output-directory check, before anything is loaded and
\* without starting training.
C2_RefusesWithoutCheckpoint ==
    (pc # "checkpoint" /\ NonEmptyNoOverwrite /\ m_args.do_train /\ ~HasCheckpointFolder) =>
        /\ pc = "raised"
        /\ m_err = "ValueError"
        /\ m_err_at = "output_dir"
        /\ config.t = "absent"
        /\ ~train_started

\* main() refused a directory that holds only a file named like a checkpoint
C2_Witness ==
    /\ pc = "raised"
    /\ m_err_at = "output_dir"
    /\ out_dir.entries = {CkptFile(3)}
    /\ m_args.do_train
    /\ ~m_args.overwrite_output_dir

\* C7: with LoRA requested and no target-module list resolved, main() raises
\* before the LoraConfig is constructed and before the model is wrapped, and
\* training is never started.
C7_RaisesBeforeLoraConfig ==
    (m_args.use_lora /\ NoTargetModuleList) =>
        /\ lora_config.t = "absent"
        /\ model.t = "absent"
        /\ ~train_started
        /\ pc \notin {"processor", "returned"}

\* the LoRA block was entered with an unknown model family and raised while
\* evaluating the arguments of LoraConfig
C7_Witness ==
    /\ pc = "raised"
    /\ m_err = "UnboundLocalError"
    /\ m_err_at = "lora_config"
    /\ Truthy(m_args.target_modules)
    /\ base_model.t = "base"

\* C8 (as claimed): at the end of a run whose configuration passes, training
\* was started on the wrapped model when use_lora is set and on the base
\* model when it is not.
C8_TrainerGetsAModel ==
    (Terminal /\ ConfigurationPasses) =>
        /\ train_started
        /\ model.t = (IF m_args.use_lora THEN "peft" ELSE "base")

\* C9 (as claimed): with a previous checkpoint in the output directory,
\* do_train set, no overwrite and no resume_from_checkpoint, main() does not
\* raise and training starts from the detected checkpoint.
C9_ResumesFromDetectedCheckpoint ==
    (/\ Terminal
     /\ ConfigurationPasses
     /\ NonEmptyNoOverwrite /\ HasCheckpointFolder
     /\ m_args.do_train
     /\ m_args.resume_from_checkpoint.none) =>
        /\ m_err = "none"
        /\ train_started
        /\ train_resumed_from = last_checkpoint

====
